---- MODULE Spec2Model ----
(***************************************************************************)
(* Model of python_code_executor.executor: the ExecutionResult value and   *)
(* its rendering, and the SandboxExecutor operations ensure_initialized,   *)
(* execute_code, install_packages, list_packages and reset_environment,    *)
(* over an abstract file system (the virtual-environment directory, the    *)
(* interpreter inside it, the temporary script files) and an abstract      *)
(* child process (spawn fault, deadline expiry, or exit with captured      *)
(* streams).  Every public operation is one action; the faults the         *)
(* library calls can raise are inputs of the action.                       *)
(***************************************************************************)
EXTENDS Integers, Sequences, FiniteSets

VARIABLES
    initialized,   \* self._initialized
    venv,          \* on-disk state of self.venv_dir: "absent", "partial", "ok"
    unstatable,    \* stat() of the venv location fails (EACCES, ENAMETOOLONG)
    existsRaises,  \* the build's Path.exists() re-raises such a stat() failure
    tempFiles,     \* names of the temporary script files present on disk
    last,          \* what the most recent step did and returned
    prev,          \* summary of the step before it
    shown,         \* the most recent ExecutionResult rendered, and its text
    callers        \* threads inside ensure_initialized: position and locals

vars ==
    <<initialized, venv, unstatable, existsRaises, tempFiles, last, prev, shown,
      callers>>

-----------------------------------------------------------------------------
(* Bounds *)

MaxLen == 2        \* longest text handed to to_string
MaxExit == 1       \* child exit codes are 0..MaxExit
MaxTimeout == 1    \* timeout arguments are None or 0..MaxTimeout
MaxTemp == 2       \* distinct temporary file names
MaxPkgs == 1       \* longest package list

-----------------------------------------------------------------------------
(* Values *)

DEFAULT_TIMEOUT == 60

\* Optional[T]: None, or a value
None == <<>>
Some(x) == <<x>>

\* Text is a sequence of characters; a literal of the source is one token.
Alphabet == {"x", " "}
Whitespace == {" "}

TextsUpTo(n) == UNION {[1..k -> Alphabet] : k \in 0..n}

\* what a child process can leave in its captured stdout and stderr
Captures ==
    {[out |-> <<>>, err |-> <<>>], [out |-> <<"x">>, err |-> <<>>],
     [out |-> <<>>, err |-> <<"x">>]}

Timeouts == {None} \cup {Some(t) : t \in 0..MaxTimeout}

PackageLists == UNION {[1..k -> {"p"}] : k \in 0..MaxPkgs}

TempNames == 1..MaxTemp

VenvStates == {"absent", "partial", "ok"}

\* ExecutionResult(success, stdout, stderr, return_code, error_message=None)
ExecutionResult(success, stdout, stderr, return_code, error_message) ==
    [success |-> success, stdout |-> stdout, stderr |-> stderr,
     return_code |-> return_code, error_message |-> error_message]

\* the failure shape every except-branch and early return builds
Failure(msg) == ExecutionResult(FALSE, <<>>, <<>>, -1, Some(msg))

-----------------------------------------------------------------------------
(* ExecutionResult.to_string *)

RECURSIVE LStrip(_)
LStrip(s) ==
    IF s = <<>> THEN <<>>
    ELSE IF Head(s) \in Whitespace THEN LStrip(Tail(s)) ELSE s

RECURSIVE RStrip(_)
RStrip(s) ==
    IF s = <<>> THEN <<>>
    ELSE IF s[Len(s)] \in Whitespace THEN RStrip(SubSeq(s, 1, Len(s) - 1)) ELSE s

\* str.strip()
Strip(s) == RStrip(LStrip(s))

\* truth value of an Optional[str]: None and "" are both false
Truthy(opt) == opt # None /\ opt[1] # <<>>

\* sep.join(parts)
RECURSIVE Join(_, _)
Join(parts, sep) ==
    IF parts = <<>> THEN <<>>
    ELSE IF Len(parts) = 1 THEN parts[1]
    ELSE parts[1] \o <<sep>> \o Join(Tail(parts), sep)

\* to_string testing the streams for emptiness instead of blankness
to_string_unstripped(r) ==
    IF Truthy(r.error_message)
    THEN <<"Error: ">> \o r.error_message[1]
    ELSE LET outPart == IF r.stdout # <<>> THEN <<r.stdout>> ELSE <<>>
             errPart == IF r.stderr # <<>>
                        THEN << <<"[STDERR]:", "\n">> \o r.stderr >>
                        ELSE <<>>
             output_parts == outPart \o errPart
         IN  IF output_parts = <<>>
             THEN <<"Code executed successfully (no output).">>
             ELSE Join(output_parts, "\n")

to_string(r) ==
    IF Truthy(r.error_message)
    THEN <<"Error: ">> \o r.error_message[1]
    ELSE LET outPart == IF Strip(r.stdout) # <<>> THEN <<r.stdout>> ELSE <<>>
             errPart == IF Strip(r.stderr) # <<>>
                        THEN << <<"[STDERR]:", "\n">> \o r.stderr >>
                        ELSE <<>>
             output_parts == outPart \o errPart
         IN  IF output_parts = <<>>
             THEN <<"Code executed successfully (no output).">>
             ELSE Join(output_parts, "\n")

-----------------------------------------------------------------------------
(* File system and child process *)

\* Path.exists() on the venv directory: "yes", "no" or "raise"
DirExists(v, bad, raises) ==
    IF bad THEN (IF raises THEN "raise" ELSE "no")
    ELSE IF v # "absent" THEN "yes" ELSE "no"

\* Path.exists() on python_path
PythonExists(v, bad, raises) ==
    IF bad THEN (IF raises THEN "raise" ELSE "no")
    ELSE IF v = "ok" THEN "yes" ELSE "no"

\* venv.create(dir, with_pip=True, clear=True): what is on disk afterwards and
\* whether it raised.  co is the outcome the host produces.
\* "fault_nopip": it raised in the pip bootstrap, after the interpreter was
\* put in place.
CreateOutcomes == {"ok", "nopython", "fault_clean", "fault_partial", "fault_nopip"}

VenvCreate(v, bad, co) ==
    IF bad THEN [raised |-> TRUE, venv |-> v]
    ELSE CASE co = "ok"            -> [raised |-> FALSE, venv |-> "ok"]
           [] co = "nopython"      -> [raised |-> FALSE, venv |-> "partial"]
           [] co = "fault_clean"   -> [raised |-> TRUE,  venv |-> "absent"]
           [] co = "fault_partial" -> [raised |-> TRUE,  venv |-> "partial"]
           [] co = "fault_nopip"   -> [raised |-> TRUE,  venv |-> "ok"]

\* ensure_initialized trusting the cached flag without looking at the disk
EnsureInitTrustsFlag(init, v, bad, raises, co) ==
    LET c == IF v = "absent" THEN VenvCreate(v, bad, co)
             ELSE [raised |-> FALSE, venv |-> v]
    IN  IF init
        THEN [ret |-> "true", initialized |-> init, venv |-> v, created |-> FALSE]
        ELSE IF ~c.raised /\ c.venv = "ok"
        THEN [ret |-> "true", initialized |-> TRUE, venv |-> c.venv,
              created |-> v = "absent"]
        ELSE [ret |-> "false", initialized |-> init, venv |-> c.venv,
              created |-> v = "absent"]

\* ensure_initialized without its existence checks: it creates on every call
EnsureInitAlwaysCreates(init, v, bad, raises, co) ==
    LET c == VenvCreate(v, bad, co)
    IN  IF c.raised
        THEN [ret |-> "false", initialized |-> init, venv |-> c.venv, created |-> TRUE]
        ELSE IF PythonExists(c.venv, bad, raises) = "yes"
        THEN [ret |-> "true", initialized |-> TRUE, venv |-> c.venv, created |-> TRUE]
        ELSE [ret |-> "false", initialized |-> init, venv |-> c.venv, created |-> TRUE]

\* ensure_initialized(): the value returned ("true", "false") or "raise", the
\* flag and the disk afterwards, and whether venv.create was called.
EnsureInit(init, v, bad, raises, co) ==
    LET d == DirExists(v, bad, raises)
        same(r) == [ret |-> r, initialized |-> init, venv |-> v, created |-> FALSE]
    IN  IF d = "raise" THEN same("raise")
        ELSE IF init /\ d = "yes" THEN same("true")
        ELSE LET c == IF d = "no" THEN VenvCreate(v, bad, co)
                      ELSE [raised |-> FALSE, venv |-> v]
                 made == (d = "no")
             IN  IF c.raised
                 THEN [ret |-> "false", initialized |-> init, venv |-> c.venv,
                       created |-> made]
                 ELSE LET p == PythonExists(c.venv, bad, raises)
                      IN  IF p = "raise"
                          THEN [ret |-> "raise", initialized |-> init,
                                venv |-> c.venv, created |-> made]
                          ELSE IF p = "no"
                          THEN [ret |-> "false", initialized |-> init,
                                venv |-> c.venv, created |-> made]
                          ELSE [ret |-> "true", initialized |-> TRUE,
                                venv |-> c.venv, created |-> made]

-----------------------------------------------------------------------------
(* Step records *)

NoResult == ExecutionResult(FALSE, <<>>, <<>>, 0, None)

NoProc == [kind |-> "-", rc |-> 0, out |-> <<>>, err |-> <<>>]

\* a step that is not an operation of the executor, or the fields an
\* operation does not use
Blank ==
    [op |-> "init", timeout |-> None, packages |-> <<>>,
     pre |-> [initialized |-> FALSE, venv |-> "absent"],
     ensure |-> "-", created |-> FALSE, create |-> "-", rm |-> "-",
     tmp |-> "-", temp |-> 0,
     proc |-> NoProc, spawned |-> FALSE, clean |-> "-", deadline |-> 0,
     elapsed |-> 0,
     path |-> "-", outcome |-> "-", ret |-> FALSE, res |-> NoResult]

\* what the next step can still see of a step: that ensure_initialized
\* returned True, that it returned False because venv.create raised, that
\* reset_environment returned a success, or none of these
Summary(l) ==
    IF l.outcome = "returned" /\ l.op = "ensure" /\ l.ret THEN "ensure_true"
    ELSE IF l.outcome = "returned" /\ l.op = "ensure"
            /\ l.create \in {"fault_clean", "fault_partial", "fault_nopip",
                             "fault_denied"}
    THEN "ensure_create_fault"
    ELSE IF l.outcome = "returned" /\ l.op = "reset" /\ l.res.success THEN "reset_ok"
    ELSE "-"

\* the threads that can be inside ensure_initialized, and where each is:
\* pc is the line it is about to run ("idle" before the call, "done" after),
\* ret what it returned, create what its venv.create did
Callers == {1, 2}

Outside ==
    [pc |-> "idle", ret |-> "-", create |-> "-", overlapped |-> FALSE]

\* nobody has called yet; creations counts the venv.create calls, destroyed
\* records that one of them wiped an installation already reported ready
NoCallers ==
    [thread |-> [t \in Callers |-> Outside], creations |-> 0,
     destroyed |-> FALSE]

\* nothing rendered or replied yet
NothingShown ==
    [tool |-> "-", arg |-> 0, names |-> <<>>, r |-> NoResult, text |-> <<>>,
     done |-> TRUE]

Init ==
    /\ initialized = FALSE
    /\ venv \in VenvStates
    /\ unstatable \in BOOLEAN
    /\ existsRaises \in BOOLEAN
    /\ tempFiles = {}
    /\ last = Blank
    /\ prev = Summary(Blank)
    /\ shown = NothingShown
    /\ callers = NoCallers

-----------------------------------------------------------------------------
(* ensure_initialized *)

\* the outcomes of venv.create that ensure_initialized can meet in this state
CreateChoices ==
    IF DirExists(venv, unstatable, existsRaises) = "no" /\ ~unstatable
    THEN CreateOutcomes ELSE {"ok"}

\* what the venv.create call of this ensure_initialized did, "-" without one
CreateSeen(e, co) ==
    IF ~e.created THEN "-" ELSE IF unstatable THEN "fault_denied" ELSE co

EnsureInitialized ==
    \E co \in CreateChoices :
        LET e == EnsureInit(initialized, venv, unstatable, existsRaises, co)
        IN  /\ initialized' = e.initialized
            /\ venv' = e.venv
            /\ last' = [Blank EXCEPT
                   !.op = "ensure",
                   !.pre = [initialized |-> initialized, venv |-> venv],
                   !.ensure = e.ret, !.created = e.created,
                   !.create = CreateSeen(e, co),
                   !.outcome = IF e.ret = "raise" THEN "raised" ELSE "returned",
                   !.ret = (e.ret = "true")]
            /\ prev' = Summary(last)
            /\ UNCHANGED <<unstatable, existsRaises, tempFiles, shown, callers>>

-----------------------------------------------------------------------------
(* Messages *)

Digit(d) == <<"0", "1", "2", "3", "4", "5", "6", "7", "8", "9">>[d + 1]

\* str(n) for n >= 0, as in an f-string
RECURSIVE Decimal(_)
Decimal(n) == IF n < 10 THEN <<Digit(n)>> ELSE Decimal(n \div 10) \o <<Digit(n % 10)>>

\* the message of another failure used for the initialization failure
WrongInitFailedMsg == <<"Failed to recreate sandbox environment">>

InitFailedMsg == <<"Failed to initialize sandbox environment">>
TimedOutMsg(t) == <<"Execution timed out after ">> \o Decimal(t) \o <<" seconds">>
SystemErrorMsg(detail) == <<"System error: ">> \o detail
NoPackagesMsg == <<"No packages specified">>
InstallTimedOutMsg == <<"Package installation timed out after 5 minutes">>
RecreateFailedMsg == <<"Failed to recreate sandbox environment">>
ResetFailedMsg(detail) == <<"Failed to reset environment: ">> \o detail
ResetDoneText == <<"Sandbox environment has been reset successfully.">>

\* str(e) of the exceptions the library calls raise
MkTempError == <<"[Errno 28] No space left on device">>
WriteError == <<"'utf-8' codec can't encode character">>
SpawnError == <<"[Errno 2] No such file or directory">>
StatError == <<"[Errno 13] Permission denied">>
RmTreeError == <<"[Errno 39] Directory not empty">>
ListTimeoutError == <<"Command timed out after 30 seconds">>

-----------------------------------------------------------------------------
(* Child processes *)

FaultProc == [kind |-> "fault", rc |-> 0, out |-> <<>>, err |-> <<>>]
TimeoutProc == [kind |-> "timeout", rc |-> 0, out |-> <<>>, err |-> <<>>]

\* what subprocess.run can do: raise on spawn, hit the deadline, or return
\* the exit code and the captured streams
ProcOutcomes ==
    {FaultProc, TimeoutProc}
    \cup {[kind |-> "exit", rc |-> rc, out |-> c.out, err |-> c.err] :
               rc \in 0..MaxExit, c \in Captures}

\* the interpreter cannot be spawned when it is not on disk
SpawnOutcomes(v) == IF v = "ok" THEN ProcOutcomes ELSE {FaultProc}

\* a completed process reported as a success whatever its exit code
CompletedAlwaysSuccess(p) == ExecutionResult(TRUE, p.out, p.err, p.rc, None)

\* the result built from a completed process
Completed(p) == ExecutionResult(p.rc = 0, p.out, p.err, p.rc, None)

\* timeout = timeout or self.timeout
EffectiveTimeout(timeout) ==
    IF timeout = None \/ timeout[1] = 0 THEN DEFAULT_TIMEOUT ELSE timeout[1]

\* the except-branches of execute_code
ExecuteTimedOut(deadline) == Failure(TimedOutMsg(deadline))

-----------------------------------------------------------------------------
(* execute_code *)

TempOutcomes == {"ok", "mkfail", "writefail"}
CleanOutcomes == {"ok", "unlink_fault", "stat_fault"}

\* try-body, except-branches and finally of execute_code once the
\* installation is ready: the result, whether it is returned or replaced by
\* an exception raised in the finally block, and the temporary files left.
RunScript(raises, files, deadline, tmp, name, p, clean) ==
    LET body ==
            CASE tmp = "mkfail" ->
                   [res |-> Failure(SystemErrorMsg(MkTempError)), path |-> "fault",
                    proc |-> NoProc, spawned |-> FALSE, temp_file |-> 0, made |-> 0]
              [] tmp = "writefail" ->
                   [res |-> Failure(SystemErrorMsg(WriteError)), path |-> "fault",
                    proc |-> NoProc, spawned |-> FALSE, temp_file |-> 0, made |-> name]
              [] tmp = "ok" /\ p.kind = "fault" ->
                   [res |-> Failure(SystemErrorMsg(SpawnError)), path |-> "fault",
                    proc |-> p, spawned |-> FALSE, temp_file |-> name, made |-> name]
              [] tmp = "ok" /\ p.kind = "timeout" ->
                   [res |-> ExecuteTimedOut(deadline), path |-> "timeout",
                    proc |-> p, spawned |-> TRUE, temp_file |-> name, made |-> name]
              [] tmp = "ok" /\ p.kind = "exit" ->
                   [res |-> Completed(p), path |-> "completed",
                    proc |-> p, spawned |-> TRUE, temp_file |-> name, made |-> name]
        onDisk == IF body.made = 0 THEN files ELSE files \cup {body.made}
        cleaned == body.temp_file # 0
    IN  [res |-> body.res, path |-> body.path, proc |-> body.proc,
         spawned |-> body.spawned, temp |-> body.made,
         clean |-> IF cleaned THEN clean ELSE "-",
         outcome |-> IF cleaned /\ clean = "stat_fault" /\ raises
                     THEN "raised" ELSE "returned",
         files |-> IF cleaned /\ clean = "ok"
                   THEN onDisk \ {body.temp_file} ELSE onDisk]

\* tempfile.NamedTemporaryFile picks a name that is not in use
FreshName == CHOOSE n \in TempNames \ tempFiles :
                 \A m \in TempNames \ tempFiles : n <= m

execute_code(timeout) ==
    /\ TempNames \ tempFiles # {}
    /\ \E co \in CreateChoices :
        LET e == EnsureInit(initialized, venv, unstatable, existsRaises, co)
            deadline == EffectiveTimeout(timeout)
            call == [Blank EXCEPT
                       !.op = "execute", !.timeout = timeout,
                       !.pre = [initialized |-> initialized, venv |-> venv],
                       !.ensure = e.ret, !.created = e.created,
                       !.create = CreateSeen(e, co)]
        IN  /\ initialized' = e.initialized
            /\ venv' = e.venv
            /\ prev' = Summary(last)
            /\ UNCHANGED <<unstatable, existsRaises>>
            /\ \/ /\ e.ret = "raise"
                  /\ last' = [call EXCEPT !.outcome = "raised"]
                  /\ tempFiles' = tempFiles
               \/ /\ e.ret = "false"
                  /\ last' = [call EXCEPT !.outcome = "returned",
                                 !.path = "init_failed",
                                 !.res = Failure(InitFailedMsg)]
                  /\ tempFiles' = tempFiles
               \/ /\ e.ret = "true"
                  /\ \E tmp \in TempOutcomes :
                     \E proc \in IF tmp = "ok" THEN SpawnOutcomes(e.venv) ELSE {NoProc},
                        clean \in IF tmp = "ok" THEN CleanOutcomes ELSE {"ok"} :
                       LET r == RunScript(existsRaises, tempFiles, deadline,
                                          tmp, FreshName, proc, clean)
                       IN  /\ last' = [call EXCEPT !.outcome = r.outcome,
                                          !.deadline = deadline,
                                          !.tmp = tmp, !.temp = r.temp,
                                          !.proc = r.proc, !.spawned = r.spawned,
                                          !.clean = r.clean, !.path = r.path,
                                          !.res = IF r.outcome = "returned"
                                                  THEN r.res ELSE NoResult]
                           /\ tempFiles' = r.files

ExecuteCode == \E timeout \in Timeouts : execute_code(timeout) /\ UNCHANGED <<shown, callers>>

-----------------------------------------------------------------------------
(* install_packages and list_packages *)

\* an install timeout reported without its error_message
InstallResultNoMessage(p) ==
    CASE p.kind = "exit"    -> Completed(p)
      [] p.kind = "timeout" -> ExecutionResult(FALSE, <<>>, <<>>, -1, None)
      [] p.kind = "fault"   -> Failure(SystemErrorMsg(SpawnError))

\* the result install_packages builds from what subprocess.run did
InstallResult(p) ==
    CASE p.kind = "exit"    -> Completed(p)
      [] p.kind = "timeout" -> Failure(InstallTimedOutMsg)
      [] p.kind = "fault"   -> Failure(SystemErrorMsg(SpawnError))

\* the result list_packages builds: its only handler is "except Exception"
ListResult(p) ==
    CASE p.kind = "exit"    -> Completed(p)
      [] p.kind = "timeout" -> Failure(SystemErrorMsg(ListTimeoutError))
      [] p.kind = "fault"   -> Failure(SystemErrorMsg(SpawnError))

\* the empty request is not recognised
NeverEmptyRequest(packages) == FALSE

\* "if not packages"
IsEmptyRequest(packages) == Len(packages) = 0

ProcPath(p) ==
    CASE p.kind = "exit"    -> "completed"
      [] p.kind = "timeout" -> "timeout"
      [] p.kind = "fault"   -> "fault"

install_packages(packages) ==
    \E co \in CreateChoices :
        LET e == EnsureInit(initialized, venv, unstatable, existsRaises, co)
            call == [Blank EXCEPT
                       !.op = "install", !.packages = packages,
                       !.pre = [initialized |-> initialized, venv |-> venv],
                       !.ensure = e.ret, !.created = e.created,
                       !.create = CreateSeen(e, co)]
        IN  /\ initialized' = e.initialized
            /\ venv' = e.venv
            /\ prev' = Summary(last)
            /\ UNCHANGED <<unstatable, existsRaises, tempFiles>>
            /\ \/ /\ e.ret = "raise"
                  /\ last' = [call EXCEPT !.outcome = "raised"]
               \/ /\ e.ret = "false"
                  /\ last' = [call EXCEPT !.outcome = "returned",
                                 !.path = "init_failed",
                                 !.res = Failure(InitFailedMsg)]
               \/ /\ e.ret = "true"
                  /\ IsEmptyRequest(packages)
                  /\ last' = [call EXCEPT !.outcome = "returned",
                                 !.path = "validation",
                                 !.res = Failure(NoPackagesMsg)]
               \/ /\ e.ret = "true"
                  /\ ~IsEmptyRequest(packages)
                  /\ \E proc \in SpawnOutcomes(e.venv) :
                       last' = [call EXCEPT !.outcome = "returned",
                                   !.deadline = 300,
                                   !.proc = proc, !.spawned = (proc.kind # "fault"),
                                   !.path = ProcPath(proc),
                                   !.res = InstallResult(proc)]

InstallPackages ==
    \E packages \in PackageLists : install_packages(packages) /\ UNCHANGED <<shown, callers>>

list_packages ==
    \E co \in CreateChoices :
        LET e == EnsureInit(initialized, venv, unstatable, existsRaises, co)
            call == [Blank EXCEPT
                       !.op = "list",
                       !.pre = [initialized |-> initialized, venv |-> venv],
                       !.ensure = e.ret, !.created = e.created,
                       !.create = CreateSeen(e, co)]
        IN  /\ initialized' = e.initialized
            /\ venv' = e.venv
            /\ prev' = Summary(last)
            /\ UNCHANGED <<unstatable, existsRaises, tempFiles>>
            /\ \/ /\ e.ret = "raise"
                  /\ last' = [call EXCEPT !.outcome = "raised"]
               \/ /\ e.ret = "false"
                  /\ last' = [call EXCEPT !.outcome = "returned",
                                 !.path = "init_failed",
                                 !.res = Failure(InitFailedMsg)]
               \/ /\ e.ret = "true"
                  /\ \E proc \in SpawnOutcomes(e.venv) :
                       last' = [call EXCEPT !.outcome = "returned",
                                   !.deadline = 30,
                                   !.proc = proc, !.spawned = (proc.kind # "fault"),
                                   !.path = ProcPath(proc),
                                   !.res = ListResult(proc)]

ListPackages == list_packages /\ UNCHANGED <<shown, callers>>

-----------------------------------------------------------------------------
(* reset_environment *)

RmTreeOutcomes == {"ok", "fault_none", "fault_partial"}

\* shutil.rmtree(venv_dir): what is left on disk and whether it raised
RmTree(v, rm) ==
    CASE rm = "ok"            -> [raised |-> FALSE, venv |-> "absent"]
      [] rm = "fault_none"    -> [raised |-> TRUE,  venv |-> v]
      [] rm = "fault_partial" -> [raised |-> TRUE,  venv |-> "partial"]

\* reset_environment ignoring the value of ensure_initialized
ResetResultIgnoresFailure(ret) ==
    CASE ret = "true"  -> ExecutionResult(TRUE, ResetDoneText, <<>>, 0, None)
      [] ret = "false" -> ExecutionResult(TRUE, ResetDoneText, <<>>, 0, None)
      [] ret = "raise" -> Failure(ResetFailedMsg(StatError))

\* the result the else-branch and the except-branch of reset_environment build
ResetResult(ret) ==
    CASE ret = "true"  -> ExecutionResult(TRUE, ResetDoneText, <<>>, 0, None)
      [] ret = "false" -> Failure(RecreateFailedMsg)
      [] ret = "raise" -> Failure(ResetFailedMsg(StatError))

reset_environment ==
    LET d == DirExists(venv, unstatable, existsRaises)
        call == [Blank EXCEPT !.op = "reset", !.outcome = "returned",
                    !.pre = [initialized |-> initialized, venv |-> venv]]
    IN  /\ prev' = Summary(last)
        /\ UNCHANGED <<unstatable, existsRaises, tempFiles>>
        /\ \/ /\ d = "raise"
              /\ last' = [call EXCEPT !.path = "fault", !.res = ResetResult("raise")]
              /\ UNCHANGED <<initialized, venv>>
           \/ /\ d = "yes"
              /\ \E rm \in RmTreeOutcomes \ {"ok"} :
                   /\ venv' = RmTree(venv, rm).venv
                   /\ last' = [call EXCEPT !.rm = rm, !.path = "fault",
                                  !.res = Failure(ResetFailedMsg(RmTreeError))]
                   /\ UNCHANGED initialized
           \/ /\ d # "raise"
              /\ \E co \in (IF unstatable THEN {"ok"} ELSE CreateOutcomes) :
                   LET v1 == IF d = "yes" THEN RmTree(venv, "ok").venv ELSE venv
                       e == EnsureInit(FALSE, v1, unstatable, existsRaises, co)
                   IN  /\ initialized' = e.initialized
                       /\ venv' = e.venv
                       /\ last' = [call EXCEPT
                                      !.rm = IF d = "yes" THEN "ok" ELSE "-",
                                      !.ensure = e.ret, !.created = e.created,
                                      !.create = CreateSeen(e, co),
                                      !.path = CASE e.ret = "true" -> "reset_done"
                                                 [] e.ret = "false" -> "recreate_failed"
                                                 [] e.ret = "raise" -> "fault",
                                      !.res = ResetResult(e.ret)]

ResetEnvironment == reset_environment /\ UNCHANGED <<shown, callers>>

-----------------------------------------------------------------------------
(* Rendering a result: to_string applied to an arbitrary ExecutionResult *)

RenderInputs ==
    [success : BOOLEAN, stdout : TextsUpTo(MaxLen), stderr : TextsUpTo(MaxLen),
     return_code : {-1, 0},
     error_message : {None} \cup {Some(t) : t \in TextsUpTo(MaxLen)}]

Render ==
    /\ ~shown.done
    /\ shown' = [shown EXCEPT !.text = to_string(shown.r), !.done = TRUE]
    /\ UNCHANGED <<initialized, venv, unstatable, existsRaises, tempFiles, last,
                   prev, callers>>

-----------------------------------------------------------------------------
(* Out-of-band changes to the installation *)

EnvStep(v, bad) ==
    /\ venv' = v
    /\ unstatable' = bad
    /\ last' = [Blank EXCEPT !.op = "env",
                   !.pre = [initialized |-> initialized, venv |-> venv]]
    /\ prev' = Summary(last)
    /\ UNCHANGED <<initialized, existsRaises, tempFiles, shown, callers>>

\* the directory is deleted by someone else
ExternalDelete == venv # "absent" /\ EnvStep("absent", unstatable)

\* the interpreter is removed from the directory
ExternalDamage == venv = "ok" /\ EnvStep("partial", unstatable)

\* the location becomes unreadable, or readable again
ExternalAccess == EnvStep(venv, ~unstatable)

Next ==
    \/ EnsureInitialized
    \/ ExecuteCode
    \/ InstallPackages
    \/ ListPackages
    \/ ResetEnvironment
    \/ ExternalDelete
    \/ ExternalDamage
    \/ ExternalAccess

Spec == Init /\ [][Next]_vars

\* the public operations alone: nobody else touches the location
NextCore ==
    \/ EnsureInitialized
    \/ ExecuteCode
    \/ InstallPackages
    \/ ListPackages
    \/ ResetEnvironment

SpecCore == Init /\ [][NextCore]_vars

\* to_string on its own: the result to render is drawn at the start
InitRender ==
    /\ initialized = FALSE
    /\ venv = "absent"
    /\ unstatable = FALSE
    /\ existsRaises = FALSE
    /\ tempFiles = {}
    /\ last = Blank
    /\ prev = Summary(Blank)
    /\ shown \in [tool : {"-"}, arg : {0}, names : {<<>>}, r : RenderInputs,
                 text : {<<>>}, done : {FALSE}]
    /\ callers = NoCallers

NextRender == Render

SpecRender == InitRender /\ [][NextRender]_vars

-----------------------------------------------------------------------------
(* The tool adapter: each tool calls one operation of the module-level *)
(* executor and turns the ExecutionResult into the reply text          *)

MIN_TIMEOUT == 1
MAX_TIMEOUT == 300

\* the timeout arguments a client sends: on and just outside both ends of
\* the range
ToolTimeouts == {MIN_TIMEOUT - 1, MIN_TIMEOUT, MAX_TIMEOUT, MAX_TIMEOUT + 1}

\* the package_names strings a client sends: empty, blank, one name, a name
\* between blanks, two names
NameTexts ==
    {<<>>, <<" ">>, <<"p">>, <<" ", "p", " ">>, <<"p", " ", "p">>}

Min(a, b) == IF a < b THEN a ELSE b
Max(a, b) == IF a > b THEN a ELSE b

\* a clamp that only caps the timeout from above
ClampUpperOnly(t) == Min(t, MAX_TIMEOUT)

\* max(1, min(timeout, 300))
Clamp(t) == Max(MIN_TIMEOUT, Min(t, MAX_TIMEOUT))

\* length of the leading run of non-whitespace characters
RECURSIVE WordLen(_)
WordLen(s) ==
    IF s = <<>> \/ Head(s) \in Whitespace THEN 0 ELSE 1 + WordLen(Tail(s))

\* str.split(): the maximal runs of non-whitespace characters
RECURSIVE Split(_)
Split(s) ==
    LET t == LStrip(s)
        k == WordLen(t)
    IN  IF t = <<>> THEN <<>>
        ELSE <<SubSeq(t, 1, k)>> \o Split(SubSeq(t, k + 1, Len(t)))

\* result.error_message or result.stderr
MessageOrStderr(r) ==
    IF Truthy(r.error_message) THEN r.error_message[1] ELSE r.stderr

NoNamesText == <<"Error: No package names provided">>
NoPackagesText == <<"No packages installed (besides defaults).">>

\* install_package replying with the rendering of the result
install_package_rendered(package_names, r) == to_string(r)

\* the reply of install_package once install_packages has returned r
install_package_text(package_names, r) ==
    IF r.success
    THEN <<"Successfully installed: ">> \o package_names \o <<"\n", "\n">> \o r.stdout
    ELSE <<"Installation failed:", "\n">> \o MessageOrStderr(r)

\* the reply of list_installed_packages once list_packages has returned r
list_installed_packages_text(r) ==
    IF r.success
    THEN (IF r.stdout # <<>> THEN r.stdout ELSE NoPackagesText)
    ELSE <<"Error: ">> \o MessageOrStderr(r)

\* the reply a tool hands back after the executor's operation: none when the
\* operation raised
Reply(tool, arg, names, l, text) ==
    IF l.outcome = "returned"
    THEN [tool |-> tool, arg |-> arg, names |-> names, r |-> l.res,
          text |-> text, done |-> TRUE]
    ELSE [tool |-> tool, arg |-> arg, names |-> names, r |-> NoResult,
          text |-> <<>>, done |-> FALSE]

ExecutePython ==
    \E t \in ToolTimeouts :
        /\ execute_code(Some(Clamp(t)))
        /\ shown' = Reply("execute_python", t, <<>>, last', to_string(last'.res))
        /\ UNCHANGED callers

InstallPackage ==
    \E package_names \in NameTexts :
        LET packages == Split(package_names)
        IN  IF packages = <<>>
            THEN /\ shown' = [tool |-> "install_package", arg |-> 0,
                              names |-> package_names, r |-> NoResult,
                              text |-> NoNamesText, done |-> TRUE]
                 /\ UNCHANGED <<initialized, venv, unstatable, existsRaises,
                                tempFiles, last, prev, callers>>
            ELSE /\ install_packages(packages)
                 /\ shown' = Reply("install_package", 0, package_names, last',
                                   install_package_text(package_names, last'.res))
                 /\ UNCHANGED callers

ListInstalledPackages ==
    /\ list_packages
    /\ shown' = Reply("list_installed_packages", 0, <<>>, last',
                      list_installed_packages_text(last'.res))
    /\ UNCHANGED callers

ResetSandbox ==
    /\ reset_environment
    /\ shown' = Reply("reset_sandbox", 0, <<>>, last', to_string(last'.res))
    /\ UNCHANGED callers

NextAdapter ==
    \/ ExecutePython
    \/ InstallPackage
    \/ ListInstalledPackages
    \/ ResetSandbox

\* the server starts with a fresh executor on a readable location
InitAdapter ==
    /\ initialized = FALSE
    /\ venv \in VenvStates
    /\ unstatable = FALSE
    /\ existsRaises = FALSE
    /\ tempFiles = {}
    /\ last = Blank
    /\ prev = Summary(Blank)
    /\ shown = NothingShown
    /\ callers = NoCallers

SpecAdapter == InitAdapter /\ [][NextAdapter]_vars

-----------------------------------------------------------------------------
(* A call blocked in subprocess.run on a ready installation: the child     *)
(* runs while the caller waits, time passes in seconds, and the call ends  *)
(* when the child exits or when the deadline is reached and the child is   *)
(* killed                                                                  *)

INSTALL_TIMEOUT == 300
LIST_TIMEOUT == 30

RunningProc == [kind |-> "running", rc |-> 0, out |-> <<>>, err |-> <<>>]

\* subprocess.run called without a timeout
NoDeadline(op, timeout) == -1

\* the timeout= argument of the subprocess.run call of each operation
Deadline(op, timeout) ==
    CASE op = "execute" -> EffectiveTimeout(timeout)
      [] op = "install" -> INSTALL_TIMEOUT
      [] op = "list"    -> LIST_TIMEOUT

Waiting == last.outcome = "waiting"

\* the operation has found the installation ready, written its script (for
\* execute_code) and spawned the child
BeginCall ==
    /\ ~Waiting
    /\ \E op \in {"execute", "install", "list"} :
       \E timeout \in IF op = "execute" THEN Timeouts ELSE {None} :
         LET e == EnsureInit(initialized, venv, unstatable, existsRaises, "ok")
         IN  /\ e.ret = "true"
             /\ op = "execute" => TempNames \ tempFiles # {}
             /\ last' = [Blank EXCEPT
                            !.op = op, !.timeout = timeout,
                            !.packages = IF op = "install" THEN <<"p">> ELSE <<>>,
                            !.pre = [initialized |-> initialized, venv |-> venv],
                            !.ensure = e.ret,
                            !.tmp = IF op = "execute" THEN "ok" ELSE "-",
                            !.temp = IF op = "execute" THEN FreshName ELSE 0,
                            !.proc = RunningProc, !.spawned = TRUE,
                            !.deadline = Deadline(op, timeout),
                            !.outcome = "waiting"]
             /\ tempFiles' = IF op = "execute" THEN tempFiles \cup {FreshName}
                             ELSE tempFiles
             /\ prev' = Summary(last)
             /\ UNCHANGED <<initialized, venv, unstatable, existsRaises, shown, callers>>

\* one second passes while the caller waits
Tick ==
    /\ Waiting
    /\ last.elapsed < last.deadline
    /\ last' = [last EXCEPT !.elapsed = @ + 1]
    /\ UNCHANGED <<initialized, venv, unstatable, existsRaises, tempFiles,
                   prev, shown, callers>>

\* subprocess.run is over with p: the operation builds its result and, for
\* execute_code, removes the script
EndCall(p, clean) ==
    LET r == RunScript(existsRaises, tempFiles, last.deadline, "ok", last.temp,
                       p, clean)
    IN  /\ CASE last.op = "execute" ->
                   /\ last' = [last EXCEPT !.outcome = r.outcome, !.proc = r.proc,
                                  !.clean = r.clean, !.path = r.path,
                                  !.res = IF r.outcome = "returned"
                                          THEN r.res ELSE NoResult]
                   /\ tempFiles' = r.files
             [] last.op = "install" ->
                   /\ last' = [last EXCEPT !.outcome = "returned", !.proc = p,
                                  !.path = ProcPath(p), !.res = InstallResult(p)]
                   /\ tempFiles' = tempFiles
             [] last.op = "list" ->
                   /\ last' = [last EXCEPT !.outcome = "returned", !.proc = p,
                                  !.path = ProcPath(p), !.res = ListResult(p)]
                   /\ tempFiles' = tempFiles
        /\ UNCHANGED <<initialized, venv, unstatable, existsRaises, prev, shown, callers>>

CleanChoices == IF last.op = "execute" THEN CleanOutcomes ELSE {"ok"}

\* the child exits on its own
ChildExit ==
    /\ Waiting
    /\ \E p \in {q \in ProcOutcomes : q.kind = "exit"}, clean \in CleanChoices :
           EndCall(p, clean)

\* the deadline is reached: subprocess.run kills the child and raises
\* TimeoutExpired
DeadlineExpiry ==
    /\ Waiting
    /\ last.elapsed = last.deadline
    /\ \E clean \in CleanChoices : EndCall(TimeoutProc, clean)

InitBlocking ==
    /\ initialized = TRUE
    /\ venv = "ok"
    /\ unstatable = FALSE
    /\ existsRaises \in BOOLEAN
    /\ tempFiles = {}
    /\ last = Blank
    /\ prev = Summary(Blank)
    /\ shown = NothingShown
    /\ callers = NoCallers

NextBlocking ==
    \/ BeginCall
    \/ Tick
    \/ ChildExit
    \/ DeadlineExpiry

\* time passes and the kill at the deadline is carried out; nothing obliges
\* the child to exit or the client to call
SpecBlocking ==
    /\ InitBlocking
    /\ [][NextBlocking]_vars
    /\ WF_vars(Tick)
    /\ WF_vars(DeadlineExpiry)

-----------------------------------------------------------------------------
(* Two threads inside ensure_initialized of one fresh SandboxExecutor.     *)
(* There is no lock: each read of the flag, each Path.exists() and each    *)
(* half of venv.create(clear=True) (wiping the directory, building the     *)
(* installation) is a step of its own and the threads' steps interleave.   *)

\* what ensure_initialized never touches
others == <<unstatable, existsRaises, tempFiles, last, prev, shown>>

Thread(t) == callers.thread[t]

InCall(t) == Thread(t).pc \notin {"idle", "done"}

\* the thread moves on, or returns
Goto(t, pc) == [callers EXCEPT !.thread[t].pc = pc]

Return(t, ret) ==
    [callers EXCEPT !.thread[t].pc = "done", !.thread[t].ret = ret]

\* line 101 without its "not": venv.create is entered when the directory exists
AfterDirCheckInverted(d) == IF d = "no" THEN "l111" ELSE "create"

\* line 101: "if not self.venv_dir.exists()" enters venv.create, otherwise
\* the interpreter is looked for
AfterDirCheck(d) == IF d = "no" THEN "create" ELSE "l111"

\* a thread calls ensure_initialized (directly, or as the first statement of
\* execute_code, install_packages or list_packages)
Enter(t) ==
    /\ Thread(t).pc = "idle"
    /\ callers' = [callers EXCEPT
                      !.thread[t].pc = "l98",
                      !.thread[t].overlapped = \E u \in Callers : InCall(u)]
    /\ UNCHANGED <<initialized, venv>>
    /\ UNCHANGED others

\* line 98, left operand: self._initialized
ReadFlag(t) ==
    /\ Thread(t).pc = "l98"
    /\ callers' = Goto(t, IF initialized THEN "l98exists" ELSE "l101")
    /\ UNCHANGED <<initialized, venv>>
    /\ UNCHANGED others

\* line 98, right operand: self.venv_dir.exists(), then return True
FastPath(t) ==
    /\ Thread(t).pc = "l98exists"
    /\ callers' = IF DirExists(venv, unstatable, existsRaises) = "yes"
                  THEN Return(t, "true") ELSE Goto(t, "l101")
    /\ UNCHANGED <<initialized, venv>>
    /\ UNCHANGED others

\* line 101: not self.venv_dir.exists()
CheckDir(t) ==
    /\ Thread(t).pc = "l101"
    /\ callers' = Goto(t, AfterDirCheck(DirExists(venv, unstatable, existsRaises)))
    /\ UNCHANGED <<initialized, venv>>
    /\ UNCHANGED others

\* line 104, first half: clear=True wipes whatever is at the location and
\* leaves an empty directory
CreateClear(t) ==
    /\ Thread(t).pc = "create"
    /\ venv' = "partial"
    /\ callers' = [callers EXCEPT
                      !.thread[t].pc = "build",
                      !.creations = @ + 1,
                      !.destroyed = @ \/ (venv = "ok" /\ \E u \in Callers \ {t} :
                                              Thread(u).ret = "true")]
    /\ UNCHANGED initialized
    /\ UNCHANGED others

\* line 104, second half: the installation is built, or venv.create raises
\* and line 106-108 return False
CreateBuild(t) ==
    /\ Thread(t).pc = "build"
    /\ \E co \in CreateOutcomes :
         LET c == VenvCreate(venv, unstatable, co)
         IN  /\ venv' = c.venv
             /\ callers' = [callers EXCEPT
                               !.thread[t].create = co,
                               !.thread[t].pc = IF c.raised THEN "done" ELSE "l111",
                               !.thread[t].ret = IF c.raised THEN "false" ELSE @]
    /\ UNCHANGED initialized
    /\ UNCHANGED others

\* line 111: not self.python_path.exists() returns False
CheckPython(t) ==
    /\ Thread(t).pc = "l111"
    /\ callers' = IF PythonExists(venv, unstatable, existsRaises) = "yes"
                  THEN Goto(t, "l115") ELSE Return(t, "false")
    /\ UNCHANGED <<initialized, venv>>
    /\ UNCHANGED others

\* line 115-116: self._initialized = True; return True
SetFlag(t) ==
    /\ Thread(t).pc = "l115"
    /\ initialized' = TRUE
    /\ callers' = Return(t, "true")
    /\ UNCHANGED venv
    /\ UNCHANGED others

NextConcurrent ==
    \/ \E t \in Callers : Enter(t)
    \/ \E t \in Callers : ReadFlag(t)
    \/ \E t \in Callers : FastPath(t)
    \/ \E t \in Callers : CheckDir(t)
    \/ \E t \in Callers : CreateClear(t)
    \/ \E t \in Callers : CreateBuild(t)
    \/ \E t \in Callers : CheckPython(t)
    \/ \E t \in Callers : SetFlag(t)

\* a fresh executor on a location that can be examined, whatever is there
InitConcurrent ==
    /\ initialized = FALSE
    /\ venv \in VenvStates
    /\ unstatable = FALSE
    /\ existsRaises = FALSE
    /\ tempFiles = {}
    /\ last = Blank
    /\ prev = Summary(Blank)
    /\ shown = NothingShown
    /\ callers = NoCallers

SpecConcurrent == InitConcurrent /\ [][NextConcurrent]_vars

-----------------------------------------------------------------------------
(* Properties *)

Calls == {"execute", "install", "list", "reset"}

Returned == last.outcome = "returned"

ErrorSet == last.res.error_message # None

\* C1: when ensure_initialized has returned True and the next step is again
\* ensure_initialized, that call returns True, does not call venv.create and
\* leaves the ready flag and the directory as they were.
C1_IdempotentInit ==
    (prev = "ensure_true" /\ last.op = "ensure") =>
        /\ Returned /\ last.ret
        /\ ~last.created
        /\ initialized /\ last.pre.initialized
        /\ venv = last.pre.venv

C1_Witness == prev = "ensure_true" /\ last.op = "ensure" /\ last.ret

\* C2: after execute_code has returned by any of its exit paths (the script
\* exited, the deadline expired, or writing the file or spawning faulted) and
\* the removal itself met no fault, the temporary script file it created is
\* not on disk.
C2_TempFileRemoved ==
    (last.op = "execute" /\ Returned /\ last.temp # 0 /\ last.clean \in {"-", "ok"})
        => last.temp \notin tempFiles

\* C3 as claimed: install_packages with an empty list returns "No packages
\* specified" in every state of the installation, spawns nothing and leaves
\* the installation as it was.
C3_EmptyRejectedEverywhere ==
    (last.op = "install" /\ last.packages = <<>>) =>
        /\ Returned
        /\ last.res = ExecutionResult(FALSE, <<>>, <<>>, -1,
                                      Some(<<"No packages specified">>))
        /\ ~last.spawned /\ ~last.created
        /\ venv = last.pre.venv /\ initialized = last.pre.initialized

\* C3 as amended: install_packages with an empty list, once the readiness
\* check has returned, runs no package-manager process; it returns
\* "No packages specified" when the check returned True and the
\* initialization failure when it returned False.
C3_EmptyRejected ==
    (last.op = "install" /\ last.packages = <<>> /\ last.ensure # "raise") =>
        /\ Returned
        /\ ~last.spawned /\ last.proc = NoProc
        /\ ~last.res.success /\ last.res.return_code = -1
        /\ last.res.stdout = <<>> /\ last.res.stderr = <<>>
        /\ last.ensure = "true" =>
               last.res.error_message = Some(<<"No packages specified">>)
        /\ last.ensure = "false" =>
               last.res.error_message =
                   Some(<<"Failed to initialize sandbox environment">>)

C3_Witness ==
    /\ last.op = "install" /\ last.packages = <<>>
    /\ last.ensure = "true" /\ last.created
    /\ last.res.error_message = Some(<<"No packages specified">>)

\* C4: no public operation raises: every call returns its value.
C4_NeverRaises == last.outcome # "raised"

\* C5: when the script is still running at the deadline, execute_code
\* returns the timeout failure naming the deadline of the call.
C5_TimeoutResult ==
    (last.op = "execute" /\ last.proc.kind = "timeout") =>
        /\ Returned
        /\ last.res = ExecutionResult(FALSE, <<>>, <<>>, -1,
               Some(<<"Execution timed out after ">> \o Decimal(last.deadline)
                    \o <<" seconds">>))

\* C6 as claimed: after reset_environment returns, the directory and the
\* interpreter exist and the ready flag is true.
C6_ResetAlwaysReady ==
    (last.op = "reset" /\ Returned) => (venv = "ok" /\ initialized)

\* C6 as amended: after reset_environment returns a success, the directory
\* and the interpreter exist and the ready flag is true; an execute_code
\* that follows passes the readiness check without creating anything and,
\* once the script file is written, runs the interpreter that is on disk.
C6_ResetRoundTrip ==
    /\ (last.op = "reset" /\ Returned /\ last.res.success) =>
           (venv = "ok" /\ initialized /\ ~unstatable)
    /\ (prev = "reset_ok" /\ last.op = "execute") =>
           /\ last.ensure = "true" /\ ~last.created
           /\ last.pre.venv = "ok" /\ last.pre.initialized
           /\ last.tmp = "ok" => last.proc.kind \in {"fault", "timeout", "exit"}

C6_Witness ==
    /\ prev = "reset_ok" /\ last.op = "execute"
    /\ last.path = "completed" /\ Returned /\ last.res.success

\* C7: in every result returned by execute_code, install_packages,
\* list_packages and reset_environment, error_message is set exactly when the
\* call ended without the outcome of a completed process (or of a completed
\* reset); a result with error_message has success false, return code -1 and
\* empty streams; the result of a completed process has none.
C7_ErrorMessageInvariant ==
    (last.op \in Calls /\ Returned) =>
        /\ ErrorSet <=> last.path \in {"init_failed", "validation", "timeout",
                                       "fault", "recreate_failed"}
        /\ ErrorSet => /\ ~last.res.success
                       /\ last.res.return_code = -1
                       /\ last.res.stdout = <<>> /\ last.res.stderr = <<>>
        /\ last.proc.kind = "exit" => ~ErrorSet

C7_Witness ==
    /\ last.op = "install" /\ last.proc.kind = "timeout" /\ Returned /\ ErrorSet

\* C8: when ensure_initialized returns False, execute_code, install_packages
\* and list_packages return the initialization failure, create no temporary
\* file and spawn nothing.
C8_InitFailure ==
    (last.op \in {"execute", "install", "list"} /\ last.ensure = "false") =>
        /\ Returned
        /\ last.res = ExecutionResult(FALSE, <<>>, <<>>, -1,
               Some(<<"Failed to initialize sandbox environment">>))
        /\ last.temp = 0 /\ last.tmp = "-"
        /\ ~last.spawned /\ last.proc = NoProc

C8_Witness ==
    /\ last.op = "list" /\ last.ensure = "false" /\ last.created
    /\ Returned /\ ErrorSet

\* C9: the result returned for a process that ran to completion has
\* success = (exit code = 0), the exit code, the captured streams and no
\* error_message.
C9_ExitCodeFidelity ==
    (last.op \in {"execute", "install", "list"} /\ last.proc.kind = "exit"
         /\ Returned) =>
        /\ last.res.success = (last.proc.rc = 0)
        /\ last.res.return_code = last.proc.rc
        /\ last.res.stdout = last.proc.out
        /\ last.res.stderr = last.proc.err
        /\ last.res.error_message = None

C9_Witness ==
    /\ last.op = "execute" /\ last.proc.kind = "exit" /\ last.proc.rc # 0
    /\ last.proc.err = <<"x">> /\ Returned /\ ~last.res.success

Blank_(s) == \A i \in 1..Len(s) : s[i] \in Whitespace

Rendering(r, t, hasError) ==
    /\ hasError => t = <<"Error: ">> \o r.error_message[1]
    /\ (~hasError /\ ~Blank_(r.stdout) /\ Blank_(r.stderr)) => t = r.stdout
    /\ (~hasError /\ Blank_(r.stdout) /\ ~Blank_(r.stderr)) =>
           t = <<"[STDERR]:", "\n">> \o r.stderr
    /\ (~hasError /\ ~Blank_(r.stdout) /\ ~Blank_(r.stderr)) =>
           t = r.stdout \o <<"\n", "[STDERR]:", "\n">> \o r.stderr
    /\ (t = <<"Code executed successfully (no output).">>) <=>
           (~hasError /\ Blank_(r.stdout) /\ Blank_(r.stderr))

\* C10 as claimed: to_string renders "Error: " + error_message whenever
\* error_message is set (not None); otherwise the non-blank stdout, then the
\* "[STDERR]:" block of the non-blank stderr; and the fixed sentence exactly
\* when error_message is unset and both streams are blank.
C10_RenderingWhenSet ==
    shown.done => Rendering(shown.r, shown.text, shown.r.error_message # None)

\* C10 as amended: the same, with an error_message counting as set when it
\* is neither None nor the empty text.
C10_Rendering ==
    shown.done =>
        Rendering(shown.r, shown.text,
                  shown.r.error_message # None /\ shown.r.error_message # Some(<<>>))

C10_Witness ==
    /\ shown.done
    /\ shown.r.error_message = None
    /\ shown.r.stdout = <<"x">> /\ shown.r.stderr = <<"x">>
    /\ shown.text = <<"x", "\n", "[STDERR]:", "\n", "x">>

\* a reply of a tool that called the executor and got a result back
Tools == {"execute_python", "install_package", "list_installed_packages",
          "reset_sandbox"}

HasName(names) == \E i \in 1..Len(names) : names[i] \notin Whitespace

CoreAnswered ==
    /\ shown.tool \in Tools
    /\ shown.done
    /\ shown.tool = "install_package" => HasName(shown.names)

HasMessage(r) == r.error_message # None /\ r.error_message # Some(<<>>)

Detail(r) == IF HasMessage(r) THEN r.error_message[1] ELSE r.stderr

\* C11 as claimed: whatever result r the executor returns to execute_python,
\* install_package, list_installed_packages or reset_sandbox, the reply text
\* is r.to_string().
C11_UniformRendering == CoreAnswered => shown.text = to_string(shown.r)

\* C11 as amended: execute_python and reset_sandbox reply with the rendering
\* of r; list_installed_packages replies with r.stdout (a fixed sentence when
\* it is empty) on success and "Error: " + (error_message or stderr)
\* otherwise; install_package replies with "Successfully installed: " + the
\* names + a blank line + r.stdout on success and "Installation failed:" +
\* newline + (error_message or stderr) otherwise.
C11_AdapterRendering ==
    CoreAnswered =>
        CASE shown.tool \in {"execute_python", "reset_sandbox"} ->
                 Rendering(shown.r, shown.text, HasMessage(shown.r))
          [] shown.tool = "list_installed_packages" ->
                 /\ (shown.r.success /\ shown.r.stdout # <<>>) =>
                        shown.text = shown.r.stdout
                 /\ (shown.r.success /\ shown.r.stdout = <<>>) =>
                        shown.text = <<"No packages installed (besides defaults).">>
                 /\ ~shown.r.success =>
                        shown.text = <<"Error: ">> \o Detail(shown.r)
          [] shown.tool = "install_package" ->
                 /\ shown.r.success =>
                        shown.text = <<"Successfully installed: ">> \o shown.names
                                         \o <<"\n", "\n">> \o shown.r.stdout
                 /\ ~shown.r.success =>
                        shown.text = <<"Installation failed:", "\n">>
                                         \o Detail(shown.r)

\* install_package answers a failed initialisation of the executor
C11_Witness ==
    /\ CoreAnswered
    /\ shown.tool = "install_package"
    /\ shown.r.error_message = Some(InitFailedMsg)
    /\ shown.text = <<"Installation failed:", "\n",
                      "Failed to initialize sandbox environment">>

\* the most recent step of the executor was made by execute_python
ViaExecutePython == shown.tool = "execute_python" /\ last.op = "execute"

\* t brought into 1..300
InRange(t) == IF t < 1 THEN 1 ELSE IF t > 300 THEN 300 ELSE t

\* C12: for every integer timeout t passed to execute_python, the timeout
\* that reaches execute_code is max(1, min(t, 300)), it lies in 1..300, and
\* once the installation is ready the deadline of the child process is that
\* value, which is also the number a timeout result names.
C12_TimeoutClamping ==
    ViaExecutePython =>
        /\ last.timeout = Some(InRange(shown.arg))
        /\ last.timeout[1] \in 1..300
        /\ last.ensure = "true" => last.deadline = InRange(shown.arg)
        /\ (last.path = "timeout" /\ Returned) =>
               last.res.error_message =
                   Some(<<"Execution timed out after ">>
                            \o Decimal(InRange(shown.arg)) \o <<" seconds">>)

\* a timeout of 0 reaches the executor as 1 and the script is stopped after
\* one second
C12_Witness ==
    /\ ViaExecutePython
    /\ shown.arg = 0
    /\ last.deadline = 1
    /\ last.path = "timeout"
    /\ shown.done
    /\ shown.text = <<"Error: ", "Execution timed out after ", "1", " seconds">>

\* C13: when ensure_initialized has returned false because venv.create
\* faulted, the flag is still false at the next call, that call runs
\* venv.create again, and it returns true when this creation succeeds.
C13_FailedCreationRetried ==
    (prev = "ensure_create_fault" /\ last.op = "ensure" /\ Returned) =>
        /\ ~last.pre.initialized
        /\ last.created
        /\ last.create = "ok" => (last.ret /\ initialized)

\* C14: in every state reached through the public operations alone, also
\* after an operation that faulted part-way, the cached flag is true only if
\* the directory exists and the interpreter exists at its derived path.
C14_ReadyFlagSound == initialized => venv = "ok"

\* C15: after reset_environment returns, the cached flag is true if and only
\* if the returned result is a success; a reset that returns a failure leaves
\* the flag false.
C15_ResetClearsReadiness ==
    (last.op = "reset" /\ Returned) => (initialized <=> last.res.success)

\* ensure_initialized called with the flag true and the directory gone
AfterDeletion ==
    last.op = "ensure" /\ last.pre.initialized /\ last.pre.venv = "absent"

\* C16: when the flag is true and the directory was deleted by someone else,
\* the next ensure_initialized does not take the fast path: a call that
\* returns has run venv.create, it returns True exactly when that creation
\* succeeded, and then the interpreter exists and the flag is true; any other
\* returned value is False.  It returns whenever the location can be examined.
C16_ExternalDeletionDetected ==
    AfterDeletion =>
        /\ Returned => last.created
        /\ (Returned /\ last.ret) <=> last.create = "ok"
        /\ (Returned /\ last.ret) => (venv = "ok" /\ initialized)
        /\ (Returned /\ ~last.ret) => last.ensure = "false"
        /\ ~unstatable => Returned

C16_Witness ==
    /\ AfterDeletion
    /\ Returned /\ last.ret /\ last.created
    /\ venv = "ok"

\* what the same execute_code call produces when the removal succeeds
CleanRun ==
    RunScript(existsRaises, {}, last.deadline, last.tmp, last.temp, last.proc, "ok")

\* C17: for every execute_code call that gets to remove its temporary file,
\* whether a value is returned, and the ExecutionResult returned, are the
\* same when the removal faults as when it succeeds.
C17_CleanupCannotChangeOutcome ==
    (last.op = "execute" /\ last.clean \in {"unlink_fault", "stat_fault"}) =>
        /\ last.outcome = CleanRun.outcome
        /\ last.res = CleanRun.res

\* C19: in execute_code, install_packages and list_packages the expiry of
\* the deadline yields a failure whose error_message is a timeout message
\* (for install "Package installation timed out after 5 minutes") and never
\* one of the form "System error: ...".
C19_TimeoutsClassified ==
    (last.op \in {"execute", "install", "list"} /\ last.proc.kind = "timeout"
        /\ Returned) =>
        /\ ~last.res.success
        /\ last.res.error_message # None
        /\ Head(last.res.error_message[1]) # "System error: "
        /\ last.op = "install" =>
               last.res.error_message =
                   Some(<<"Package installation timed out after 5 minutes">>)

\* C20: for every integer passed to execute_code as timeout, 0 included, the
\* deadline of the script process, and the number the timeout message names,
\* is that integer; the default is used only without a timeout argument.
C20_CallerTimeoutOverrides ==
    (last.op = "execute" /\ last.ensure = "true") =>
        /\ last.timeout # None =>
               /\ last.deadline = last.timeout[1]
               /\ (last.path = "timeout" /\ Returned) =>
                      last.res.error_message = Some(TimedOutMsg(last.timeout[1]))
        /\ last.timeout = None => last.deadline = DEFAULT_TIMEOUT

\* C18: on a ready installation every call of execute_code, install_packages
\* and list_packages that waits for its child process is eventually over,
\* whether or not the child ever exits.
C18_BoundedBlocking == Waiting ~> ~Waiting

\* install_packages ended by its deadline after 300 seconds of waiting
C18_Witness ==
    /\ last.op = "install"
    /\ last.outcome = "returned"
    /\ last.proc.kind = "timeout"
    /\ last.elapsed = 300
    /\ last.res.error_message =
           Some(<<"Package installation timed out after 5 minutes">>)

\* both calls are over
AllDone == \A t \in Callers : Thread(t).pc = "done"

\* no venv.create that ran so far was made to fail by the host
CanSucceed == \A t \in Callers : Thread(t).create \in {"-", "ok"}

\* the second call began after the first was over
Serial == \A t \in Callers : ~Thread(t).overlapped

\* C21 as claimed: when two callers run ensure_initialized concurrently on a
\* fresh executor, under every interleaving venv.create is performed at most
\* once, no creation destroys an installation another caller has reported
\* ready, and both calls return true when creation can succeed.
C21_ConcurrentFirstUse ==
    /\ callers.creations <= 1
    /\ ~callers.destroyed
    /\ (AllDone /\ CanSucceed /\ venv # "partial") =>
           \A t \in Callers : Thread(t).ret = "true"

\* C21 as amended: each caller performs venv.create at most once; and when
\* the two calls do not overlap and no creation is made to fail, creation
\* is performed at most once, no installation reported ready is destroyed,
\* and, unless the location held a directory without an interpreter, both
\* calls return true with the installation in place and the flag set.
C21_SerializedFirstUse ==
    /\ callers.creations <= Cardinality(Callers)
    /\ (Serial /\ CanSucceed) =>
           /\ callers.creations <= 1
           /\ ~callers.destroyed
           /\ (AllDone /\ venv # "partial") =>
                  /\ \A t \in Callers : Thread(t).ret = "true"
                  /\ venv = "ok" /\ initialized

\* one call after the other on an empty location: the first creates, the
\* second takes the fast path
C21_Witness ==
    /\ AllDone /\ Serial
    /\ callers.creations = 1
    /\ \E t \in Callers : Thread(t).create = "ok"
    /\ \A t \in Callers : Thread(t).ret = "true"
    /\ venv = "ok" /\ initialized

====
